---- MODULE Spec2Model ----
(***************************************************************************)
(* Model of verify_metrics.py: calculate_metrics (the scikit-learn calls   *)
(* it makes, on string labels) and the main() pipeline                     *)
(* load -> verify -> validate -> calculate -> report -> save.              *)
(*                                                                         *)
(* Metric values are exact ratios [num, den]; den = 0 is the NaN that      *)
(* numpy produces for the mean of an empty array.  Float rounding is not   *)
(* modelled.  Paths are sequences of one-character strings.                *)
(***************************************************************************)
EXTENDS Integers, Sequences, FiniteSets, TLC

VARIABLES pc, argv, file, writable, csv_file, df, y_true, y_pred, warnings,
          metrics, called, steps, output_file, written, exit_status, results

vars == <<pc, argv, file, writable, csv_file, df, y_true, y_pred, warnings,
          metrics, called, steps, output_file, written, exit_status, results>>

\* ------------------------------------------------------------------ bounds
MaxLen == 4
MaxRows == 2
MaxPathParts == 2

\* ------------------------------------------------------------- label data
Labels == {"Yes", "No", "Maybe"}

valid_labels == {"Yes", "No"}

required_columns == {"actual_label", "predicted_label"}

SeqsUpTo(S, n) == UNION {[1..k -> S] : k \in 0..n}

Unique(s) == {s[i] : i \in DOMAIN s}

\* ---------------------------------------------------------- exact ratios
Zero == [num |-> 0, den |-> 1]

IsNaN(r) == r.den = 0

RatEq(a, b) == /\ ~IsNaN(a)
               /\ ~IsNaN(b)
               /\ a.num * b.den = b.num * a.den

InUnitInterval(r) == /\ ~IsNaN(r)
                     /\ 0 <= r.num
                     /\ r.num <= r.den

\* ------------------------------------------------- scikit-learn, as called
\* (behaviour of scikit-learn 1.x on lists of strings)
\* index of a label in `labels` (dict built by enumerate: the last
\* occurrence wins); a label that is not listed maps past the matrix
label_to_ind(labels, l) ==
    IF \E i \in DOMAIN labels : labels[i] = l
    THEN CHOOSE i \in DOMAIN labels :
            /\ labels[i] = l
            /\ \A j \in DOMAIN labels : labels[j] = l => j <= i
    ELSE Len(labels) + 1

confusion_matrix(yt, yp, labels) ==
    IF Len(yt) > 0 /\ Unique(yt) \cap Unique(labels) = {}
    THEN [raised |-> TRUE, cm |-> <<>>]
    ELSE [raised |-> FALSE,
          cm |-> [i \in DOMAIN labels |-> [j \in DOMAIN labels |->
                    Cardinality({k \in DOMAIN yt :
                        /\ label_to_ind(labels, yt[k]) = i
                        /\ label_to_ind(labels, yp[k]) = j})]]]

check_targets(yt, yp) ==
    IF Cardinality(Unique(yt) \cup Unique(yp)) > 2 THEN "multiclass" ELSE "binary"

accuracy_score(yt, yp) ==
    [num |-> Cardinality({k \in DOMAIN yt : yt[k] = yp[k]}), den |-> Len(yt)]

\* average='binary' label check of precision/recall/f1
binary_average_raises(yt, yp, pos_label) ==
    LET present_labels == Unique(yt) \cup Unique(yp) IN
    \/ check_targets(yt, yp) = "multiclass"
    \/ /\ pos_label \notin present_labels
       /\ Cardinality(present_labels) >= 2

prf_divide(n, d) == IF d = 0 THEN Zero ELSE [num |-> n, den |-> d]

tp_sum(yt, yp, pos_label) ==
    Cardinality({k \in DOMAIN yt : yt[k] = pos_label /\ yp[k] = pos_label})

pred_sum(yp, pos_label) == Cardinality({k \in DOMAIN yp : yp[k] = pos_label})

true_sum(yt, pos_label) == Cardinality({k \in DOMAIN yt : yt[k] = pos_label})

precision_score(yt, yp, pos_label) ==
    prf_divide(tp_sum(yt, yp, pos_label), pred_sum(yp, pos_label))

recall_score(yt, yp, pos_label) ==
    prf_divide(tp_sum(yt, yp, pos_label), true_sum(yt, pos_label))

f1_score(yt, yp, pos_label) ==
    prf_divide(2 * tp_sum(yt, yp, pos_label),
               true_sum(yt, pos_label) + pred_sum(yp, pos_label))

\* -------------------------------------------------------- calculate_metrics
\* fault variant: cells read in scikit-learn's default (tn, fp, fn, tp) order
extract_counts_ravel(cm) ==
    [tn |-> cm[1][1], fp |-> cm[1][2], fn |-> cm[2][1], tp |-> cm[2][2]]

\* fault variant: tn read from the tp cell
extract_counts_copy_paste(cm) ==
    [tp |-> cm[1][1], fn |-> cm[1][2], fp |-> cm[2][1], tn |-> cm[1][1]]

\* lines 41-44
extract_counts(cm) ==
    [tp |-> cm[1][1], fn |-> cm[1][2], fp |-> cm[2][1], tn |-> cm[2][2]]

Raised(where) == [kind |-> "raised", at |-> where]

NotCalled == [kind |-> "none"]

calculate_metrics(yt, yp, pos_label) ==
    LET c == confusion_matrix(yt, yp, <<pos_label, "No">>) IN
    IF c.raised THEN Raised("confusion_matrix")
    ELSE IF binary_average_raises(yt, yp, pos_label) THEN Raised("precision_score")
    ELSE LET n == extract_counts(c.cm) IN
         [kind |-> "result",
          accuracy |-> accuracy_score(yt, yp),
          precision |-> precision_score(yt, yp, pos_label),
          recall |-> recall_score(yt, yp, pos_label),
          f1_score |-> f1_score(yt, yp, pos_label),
          confusion_matrix |-> [true_positive |-> n.tp, true_negative |-> n.tn,
                                false_positive |-> n.fp, false_negative |-> n.fn],
          total_samples |-> Len(yt),
          tp |-> n.tp, tn |-> n.tn, fp |-> n.fp, fn |-> n.fn]

\* --------------------------------------------------------------- main: data
verify_csv_format(frame) ==
    LET missing == {col \in required_columns : col \notin frame.columns} IN
    missing = {}

\* str.replace(old, new): every non-overlapping occurrence, left to right
RECURSIVE str_replace(_, _, _)
str_replace(s, old, new) ==
    IF Len(s) < Len(old) \/ Len(old) = 0 THEN s
    ELSE IF SubSeq(s, 1, Len(old)) = old
         THEN new \o str_replace(SubSeq(s, Len(old) + 1, Len(s)), old, new)
         ELSE <<Head(s)>> \o str_replace(Tail(s), old, new)

csv_ext == <<".", "c", "s", "v">>

metrics_suffix == <<"_", "p", "y", "t", "h", "o", "n", "_", "m", "e", "t", "r",
                    "i", "c", "s", ".", "j", "s", "o", "n">>

output_path(path) == str_replace(path, csv_ext, metrics_suffix)

\* ------------------------------------------------------- main: environment
PathParts == {<<"d">>, csv_ext, <<".", "t", "x", "t">>}

RECURSIVE Flatten(_)
Flatten(ps) == IF ps = <<>> THEN <<>> ELSE Head(ps) \o Flatten(Tail(ps))

Paths == {Flatten(ps) : ps \in SeqsUpTo(PathParts, MaxPathParts) \ {<<>>}}

NoFrame == [columns |-> {}, actual_label |-> <<>>, predicted_label |-> <<>>]

\* data frames as read_csv returns them: the columns present have one value
\* per row, all columns the same number of rows
Frames ==
    {[columns |-> c, actual_label |-> a, predicted_label |-> p] :
        c \in SUBSET required_columns,
        a \in SeqsUpTo(Labels, MaxRows),
        p \in SeqsUpTo(Labels, MaxRows)}

WellFormed(f) ==
    /\ "actual_label" \notin f.columns => f.actual_label = <<>>
    /\ "predicted_label" \notin f.columns => f.predicted_label = <<>>
    /\ f.columns = required_columns => Len(f.actual_label) = Len(f.predicted_label)

Files ==
    {[kind |-> "missing", frame |-> NoFrame], [kind |-> "unreadable", frame |-> NoFrame]}
    \cup {[kind |-> "csv", frame |-> f] : f \in {g \in Frames : WellFormed(g)}}

AllSteps == {"load", "validate", "compute", "report", "save"}

\* ------------------------------------------------------------ main: actions
Exit(code) ==
    /\ exit_status' = Append(exit_status, code)
    /\ pc' = "done"

\* lines 113-123
Start ==
    /\ pc = "start"
    /\ IF Len(argv) < 2
       THEN Exit(1) /\ UNCHANGED csv_file
       ELSE /\ csv_file' = argv[2]
            /\ pc' = "load"
            /\ UNCHANGED exit_status
    /\ UNCHANGED <<argv, file, writable, df, y_true, y_pred, warnings, metrics,
                   called, steps, output_file, written, results>>

\* fault variant: the FileNotFoundError handler does not exit
LoadSwallow ==
    /\ pc = "load"
    /\ IF file.kind = "missing"
       THEN Exit(0) /\ UNCHANGED <<df, steps>>
       ELSE IF file.kind # "csv"
       THEN Exit(1) /\ UNCHANGED <<df, steps>>
       ELSE /\ df' = file.frame
            /\ steps' = steps \cup {"load"}
            /\ pc' = "verify"
            /\ UNCHANGED exit_status
    /\ UNCHANGED <<argv, file, writable, csv_file, y_true, y_pred, warnings,
                   metrics, called, output_file, written, results>>

\* lines 125-130, handlers 180-187
Load ==
    /\ pc = "load"
    /\ IF file.kind = "missing"
       THEN Exit(1) /\ UNCHANGED <<df, steps>>
       ELSE IF file.kind # "csv"
       THEN Exit(1) /\ UNCHANGED <<df, steps>>
       ELSE /\ df' = file.frame
            /\ steps' = steps \cup {"load"}
            /\ pc' = "verify"
            /\ UNCHANGED exit_status
    /\ UNCHANGED <<argv, file, writable, csv_file, y_true, y_pred, warnings,
                   metrics, called, output_file, written, results>>

\* lines 132-134 (SystemExit is not an Exception: it passes the handlers)
Verify ==
    /\ pc = "verify"
    /\ IF ~verify_csv_format(df)
       THEN Exit(1)
       ELSE pc' = "validate" /\ UNCHANGED exit_status
    /\ UNCHANGED <<argv, file, writable, csv_file, df, y_true, y_pred, warnings,
                   metrics, called, steps, output_file, written, results>>

\* lines 136-158 (indexing an absent column raises KeyError)
Validate ==
    /\ pc = "validate"
    /\ IF ~(required_columns \subseteq df.columns)
       THEN Exit(1) /\ UNCHANGED <<y_true, y_pred, warnings, steps>>
       ELSE /\ y_true' = df.actual_label
            /\ y_pred' = df.predicted_label
            /\ warnings' =
                 {s \in {"actual", "predicted"} :
                    LET col == IF s = "actual" THEN df.actual_label
                               ELSE df.predicted_label
                        invalid == {i \in DOMAIN col : col[i] \notin valid_labels}
                    IN  invalid # {}}
            /\ steps' = steps \cup {"validate"}
            /\ pc' = "calculate"
            /\ UNCHANGED exit_status
    /\ UNCHANGED <<argv, file, writable, csv_file, df, metrics, called,
                   output_file, written, results>>

\* fault variant: the Exception handler does not exit
CalculateSwallow ==
    /\ pc = "calculate"
    /\ called' = TRUE
    /\ metrics' = calculate_metrics(y_true, y_pred, "Yes")
    /\ IF metrics'.kind = "raised"
       THEN Exit(0) /\ UNCHANGED steps
       ELSE /\ steps' = steps \cup {"compute"}
            /\ pc' = "report"
            /\ UNCHANGED exit_status
    /\ UNCHANGED <<argv, file, writable, csv_file, df, y_true, y_pred, warnings,
                   output_file, written, results>>

\* lines 160-162, handler 183-187
Calculate ==
    /\ pc = "calculate"
    /\ called' = TRUE
    /\ metrics' = calculate_metrics(y_true, y_pred, "Yes")
    /\ IF metrics'.kind = "raised"
       THEN Exit(1) /\ UNCHANGED steps
       ELSE /\ steps' = steps \cup {"compute"}
            /\ pc' = "report"
            /\ UNCHANGED exit_status
    /\ UNCHANGED <<argv, file, writable, csv_file, df, y_true, y_pred, warnings,
                   output_file, written, results>>

\* lines 164-169
Report ==
    /\ pc = "report"
    /\ steps' = steps \cup {"report"}
    /\ pc' = "save"
    /\ UNCHANGED <<argv, file, writable, csv_file, df, y_true, y_pred, warnings,
                   metrics, called, output_file, written, exit_status, results>>

\* lines 171-178; open() fails when the target cannot be written (handler
\* 180-187); falling off the end of main is exit status 0
Save ==
    /\ pc = "save"
    /\ output_file' = output_path(csv_file)
    /\ IF writable
       THEN /\ written' = written \cup {output_file'}
            /\ file' = IF output_file' = csv_file
                       THEN [kind |-> "json", frame |-> NoFrame]
                       ELSE file
            /\ steps' = steps \cup {"save"}
            /\ Exit(0)
       ELSE Exit(1) /\ UNCHANGED <<written, file, steps>>
    /\ UNCHANGED <<argv, writable, csv_file, df, y_true, y_pred, warnings,
                   metrics, called, results>>

Init ==
    /\ pc = "start"
    /\ argv \in {<<<<"v">>>>} \cup {<<<<"v">>, p>> : p \in Paths}
    /\ file \in Files
    /\ writable \in BOOLEAN
    /\ csv_file = <<>>
    /\ df = NoFrame
    /\ y_true = <<>>
    /\ y_pred = <<>>
    /\ warnings = {}
    /\ metrics = NotCalled
    /\ called = FALSE
    /\ steps = {}
    /\ output_file = <<>>
    /\ written = {}
    /\ exit_status = <<>>
    /\ results = [p \in valid_labels |-> NotCalled]

Next ==
    \/ Start
    \/ Load
    \/ Verify
    \/ Validate
    \/ Calculate
    \/ Report
    \/ Save

Spec == Init /\ [][Next]_vars

\* ------------------------------------- calculate_metrics called on its own
\* line 23: a caller passes two equal-length label lists and a pos_label
CallCalculateMetrics ==
    /\ pc = "lib"
    /\ \E p \in valid_labels :
          /\ results[p] = NotCalled
          /\ results' = [results EXCEPT ![p] = calculate_metrics(y_true, y_pred, p)]
    /\ UNCHANGED <<pc, argv, file, writable, csv_file, df, y_true, y_pred,
                   warnings, metrics, called, steps, output_file, written,
                   exit_status>>

InitCalc ==
    /\ pc = "lib"
    /\ y_true \in SeqsUpTo(Labels, MaxLen)
    /\ y_pred \in [DOMAIN y_true -> Labels]
    /\ argv = <<<<"v">>>>
    /\ file = [kind |-> "missing", frame |-> NoFrame]
    /\ writable = FALSE
    /\ csv_file = <<>>
    /\ df = NoFrame
    /\ warnings = {}
    /\ metrics = NotCalled
    /\ called = FALSE
    /\ steps = {}
    /\ output_file = <<>>
    /\ written = {}
    /\ exit_status = <<>>
    /\ results = [p \in valid_labels |-> NotCalled]

NextCalc == CallCalculateMetrics

SpecCalc == InitCalc /\ [][NextCalc]_vars

\* =================================================================== claims
\* number of rows whose (actual, predicted) is exactly (a, b)
PairCount(a, b) ==
    Cardinality({k \in DOMAIN y_true : y_true[k] = a /\ y_pred[k] = b})

\* rows with a valid label on both sides
ValidRows ==
    {k \in DOMAIN y_true : y_true[k] \in valid_labels /\ y_pred[k] \in valid_labels}

AllRowsValid == ValidRows = DOMAIN y_true

ResYes == results["Yes"]

ResNo == results["No"]

CountSum(r) == r.tp + r.tn + r.fp + r.fn

\* n / d with the 0.0-on-zero-denominator policy
RatioOrZero(n, d) == IF d = 0 THEN Zero ELSE [num |-> n, den |-> d]

\* C1: whenever calculate_metrics(y_true, y_pred, 'Yes') returns, tp, fn, fp
\* and tn are the numbers of (Yes,Yes), (Yes,No), (No,Yes) and (No,No) rows,
\* so a row with a label outside {'Yes','No'} is in none of the four counts.
C1_ConfusionCounts ==
    ResYes.kind = "result" =>
        /\ ResYes.tp = PairCount("Yes", "Yes")
        /\ ResYes.fn = PairCount("Yes", "No")
        /\ ResYes.fp = PairCount("No", "Yes")
        /\ ResYes.tn = PairCount("No", "No")
        /\ CountSum(ResYes) = Cardinality(ValidRows)
        /\ ResYes.confusion_matrix =
              [true_positive |-> ResYes.tp, true_negative |-> ResYes.tn,
               false_positive |-> ResYes.fp, false_negative |-> ResYes.fn]

C1_Witness ==
    /\ ResYes.kind = "result"
    /\ ~AllRowsValid
    /\ ResYes.tp >= 1
    /\ ResYes.total_samples >= 3

\* C2: the returned accuracy is (tp + tn) / N with N the number of rows that
\* are valid on both sides, and 0.0 when N = 0.
C2_AccuracyOverValidRows ==
    ResYes.kind = "result" =>
        RatEq(ResYes.accuracy,
              RatioOrZero(ResYes.tp + ResYes.tn, Cardinality(ValidRows)))

\* C3: the returned precision, recall and f1_score are tp/(tp+fp),
\* tp/(tp+fn) and 2PR/(P+R) of the counts returned in the same result, each
\* 0.0 when its denominator is 0.
C3_RatiosOfReturnedCounts ==
    ResYes.kind = "result" =>
        LET P == RatioOrZero(ResYes.tp, ResYes.tp + ResYes.fp)
            R == RatioOrZero(ResYes.tp, ResYes.tp + ResYes.fn)
            F == RatioOrZero(2 * P.num * R.num, P.num * R.den + R.num * P.den)
        IN  /\ RatEq(ResYes.precision, P)
            /\ RatEq(ResYes.recall, R)
            /\ RatEq(ResYes.f1_score, F)

\* C4: in every returned result total_samples is the raw input length and
\* tp + tn + fp + fn <= total_samples, with equality exactly when every row
\* is valid on both sides.
C4_CountsWithinTotal ==
    ResYes.kind = "result" =>
        /\ ResYes.total_samples = Len(y_true)
        /\ CountSum(ResYes) <= ResYes.total_samples
        /\ (CountSum(ResYes) = ResYes.total_samples) <=> AllRowsValid

C4_Witness ==
    /\ ResYes.kind = "result"
    /\ ~AllRowsValid
    /\ CountSum(ResYes) >= 1
    /\ CountSum(ResYes) < ResYes.total_samples

\* C5: every call of calculate_metrics returns a result whose accuracy,
\* precision, recall and f1_score are in [0, 1]; for the empty dataset all
\* four are 0.0 and the four counts are 0.
C5_AlwaysReturnsBoundedMetrics ==
    ResYes # NotCalled =>
        /\ ResYes.kind = "result"
        /\ InUnitInterval(ResYes.accuracy)
        /\ InUnitInterval(ResYes.precision)
        /\ InUnitInterval(ResYes.recall)
        /\ InUnitInterval(ResYes.f1_score)
        /\ Len(y_true) = 0 =>
              /\ RatEq(ResYes.accuracy, Zero)
              /\ RatEq(ResYes.precision, Zero)
              /\ RatEq(ResYes.recall, Zero)
              /\ RatEq(ResYes.f1_score, Zero)
              /\ CountSum(ResYes) = 0

\* the loaded frame has both columns and some label outside {'Yes','No'}
LoadedWithInvalidLabel ==
    /\ "load" \in steps
    /\ df.columns = required_columns
    /\ \/ \E i \in DOMAIN df.actual_label : df.actual_label[i] \notin valid_labels
       \/ \E i \in DOMAIN df.predicted_label : df.predicted_label[i] \notin valid_labels

\* C6: a run whose file has both columns and an invalid label is not aborted:
\* it warns for each side with invalid labels, computes the metrics without
\* those rows in the counts, reports, writes the artifact (when the target is
\* writable) and does not end with exit status 1.
C6_InvalidLabelsNotFatal ==
    (pc = "done" /\ LoadedWithInvalidLabel /\ writable) =>
        /\ exit_status = <<0>>
        /\ warnings # {}
        /\ metrics.kind = "result"
        /\ CountSum(metrics) < metrics.total_samples
        /\ {"compute", "report", "save"} \subseteq steps
        /\ written = {output_file}

\* the argument is missing, the file does not exist or a column is absent
StructuralFailure ==
    \/ Len(argv) < 2
    \/ file.kind = "missing"
    \/ file.kind = "csv" /\ ~(required_columns \subseteq file.frame.columns)

\* C7: in a run with a missing argument, a missing file or an absent required
\* column, calculate_metrics is never called, no artifact is written, and the
\* run ends with exit status 1.
C7_StructuralFailureIsFatal ==
    StructuralFailure =>
        /\ ~called
        /\ metrics = NotCalled
        /\ written = {}
        /\ "compute" \notin steps
        /\ pc = "done" => exit_status = <<1>>

C7_Witness ==
    /\ pc = "done"
    /\ Len(argv) = 2
    /\ file.kind = "csv"
    /\ file.frame.columns = {"actual_label"}
    /\ "load" \in steps
    /\ exit_status = <<1>>

\* C8: a finished run has exactly one exit status, 0 or 1; it is 0 exactly
\* when load, validate, compute, report and save all completed and the
\* artifact was written, and 1 otherwise.
C8_OneExitStatus ==
    pc = "done" =>
        /\ Len(exit_status) = 1
        /\ exit_status[1] \in {0, 1}
        /\ (exit_status[1] = 0) <=> (steps = AllSteps /\ written = {output_file})

C8_Witness ==
    /\ pc = "done"
    /\ called
    /\ metrics.kind = "raised"
    /\ exit_status = <<1>>

IsSuffix(suf, s) ==
    /\ Len(suf) <= Len(s)
    /\ SubSeq(s, Len(s) - Len(suf) + 1, Len(s)) = suf

\* C9: after a successful run the artifact was written to a path that ends
\* with the fixed suffix and differs from the input path, and the input file
\* still holds the CSV data.
C9_OutputPathDistinct ==
    (pc = "done" /\ exit_status = <<0>>) =>
        /\ written = {output_file}
        /\ IsSuffix(metrics_suffix, output_file)
        /\ output_file # csv_file
        /\ file.kind = "csv"

\* C10: for a dataset of valid rows, the result for pos_label='No' has the
\* counts of the pos_label='Yes' result swapped (tp<->tn, fp<->fn) and its
\* precision and recall are the ratios of those swapped counts.
C10_PosLabelSwapsClasses ==
    (ResYes.kind = "result" /\ ResNo.kind = "result" /\ AllRowsValid) =>
        /\ ResNo.tp = ResYes.tn
        /\ ResNo.tn = ResYes.tp
        /\ ResNo.fp = ResYes.fn
        /\ ResNo.fn = ResYes.fp
        /\ RatEq(ResNo.precision, RatioOrZero(ResNo.tp, ResNo.tp + ResNo.fp))
        /\ RatEq(ResNo.recall, RatioOrZero(ResNo.tp, ResNo.tp + ResNo.fn))

====
